---- MODULE Spec2Model ----
(***************************************************************************)
(* State machine of the App component (src/App.tsx): the session state,    *)
(* the preferences, the playlist, the debounced filter effect and its      *)
(* timer, the translation lookup, and the localStorage items the state is  *)
(* loaded from and saved to.                                               *)
(*                                                                         *)
(* One action is one event of the single-threaded event loop: a handler    *)
(* call together with the render it causes and the effects that render     *)
(* runs (the persistence effects and the filter effect), or one timer      *)
(* callback. A page load is one action as well: the first render and the   *)
(* effects of the mount.                                                   *)
(***************************************************************************)
EXTENDS Integers, Sequences, FiniteSets

VARIABLES
    phase,             \* "running" | "unmounted" | "crashed" (a render or an
                       \* effect threw and React removed the tree)
    isLoggedIn,        \* useState<boolean>
    user,              \* useState<User | null>: <<>> is null, <<u>> is u
    theme,             \* useState<Theme>
    language,          \* useState<LanguageCode>
    isAutoplayEnabled, \* useState<boolean>
    deviceView,        \* useState<DeviceView>
    playlist,          \* useState<Video[]>
    activeModal,       \* useState<ModalType | null>
    videos,            \* useState<Video[]>: the visible set
    searchQuery,       \* useState(''): a sequence of characters
    selectedCategory,  \* useState<string | null>
    storage,           \* localStorage: key -> stored item
    quotaExceeded,     \* localStorage.setItem throws (no room, or none given)
    timers,            \* the pending setTimeout callbacks of the event loop
    timer,             \* the handle the live filter effect's cleanup closes over
    sinceChange,       \* history: time since the filter inputs last changed
    burstLen,          \* history: changes in the current burst
    burstRuns,         \* history: recomputations run since the burst began
    lastEvent          \* history: the event handled last

vars == <<phase, isLoggedIn, user, theme, language, isAutoplayEnabled,
          deviceView, playlist, activeModal, videos, searchQuery,
          selectedCategory, storage, quotaExceeded, timers, timer, sinceChange,
          burstLen, burstRuns, lastEvent>>

-----------------------------------------------------------------------------
(* Bounds of the model.                                                    *)

\* Time advances in steps of TickStep units.
TickStep == 150

\* The keys handed to t have at most MaxKeyLen characters.
MaxKeyLen == 3

\* burstLen stops counting at MaxBurst.
MaxBurst == 3

\* Recomputations counted per burst stop at MaxRuns.
MaxRuns == 2

-----------------------------------------------------------------------------
(* Values.                                                                 *)

\* null of a string-typed state (selectedCategory, activeModal).
null == "null"

\* null of the object-typed state user.
nullUser == <<>>

\* The delay handed to setTimeout.
Delay == 300

\* The 'myPlaylist' pseudo-category.
MyPlaylist == "myPlaylist"

Min(a, b) == IF a < b THEN a ELSE b

\* The catalog: three entries in two categories. Strings that are searched
\* are sequences of characters; url, thumbnailUrl and price are never read.
MOCK_VIDEOS ==
    << [id |-> 1, category |-> "music",
        title |-> <<"J", "a", "z", "z">>, description |-> <<"N", "i", "g", "h", "t">>],
       [id |-> 2, category |-> "sports",
        title |-> <<"F", "i", "n", "a", "l", "s">>, description |-> <<"c", "u", "p">>],
       [id |-> 3, category |-> "music",
        title |-> <<"L", "i", "v", "e">>, description |-> <<"J", "A", "Z", " ", "s", "e", "t">>] >>

Range(s) == {s[i] : i \in 1..Len(s)}

\* The values the UI hands to setSearchQuery.
Queries == { <<>>, <<"j", "A", "z">>, <<"I", "N">> }

\* The values the UI hands to setSelectedCategory.
Categories == {null, MyPlaylist, "music", "sports"}

\* The values of ModalType.
ModalTypes == {"signIn", "signUp"}

\* The argument of handleLogin: absent, or an email and password.
Credentials == {"undefined", "registered", "unknown"}

UpperCase == <<"A", "B", "C", "D", "E", "F", "G", "H", "I", "J", "K", "L", "M",
               "N", "O", "P", "Q", "R", "S", "T", "U", "V", "W", "X", "Y", "Z">>
LowerCase == <<"a", "b", "c", "d", "e", "f", "g", "h", "i", "j", "k", "l", "m",
               "n", "o", "p", "q", "r", "s", "t", "u", "v", "w", "x", "y", "z">>

\* String.prototype.toLowerCase, character by character.
toLowerCase(s) ==
    [i \in 1..Len(s) |->
        IF \E k \in 1..Len(UpperCase) : UpperCase[k] = s[i]
        THEN LowerCase[CHOOSE k \in 1..Len(UpperCase) : UpperCase[k] = s[i]]
        ELSE s[i]]

\* String.prototype.includes.
includes(s, sub) ==
    \E i \in 0..(Len(s) - Len(sub)) : SubSeq(s, i + 1, i + Len(sub)) = sub

-----------------------------------------------------------------------------
(* localStorage items. An item is absent, or text; text that is a JSON     *)
(* document v is Json(v), text that JSON.parse rejects is Malformed, and   *)
(* any other text is Text(s). A JSON object is the sequence of its         *)
(* <<name, value>> members in the order they are written, a JSON array the *)
(* sequence of its elements.                                               *)

Absent == [kind |-> "absent"]
Malformed == [kind |-> "malformed"]
Text(s) == [kind |-> "text", text |-> s]
Json(v) == [kind |-> "json", value |-> v]

\* The profile handleLogin sets.
JaneDoe == [name |-> "Jane Doe", email |-> "jane.doe@example.com",
            avatarUrl |-> "https://picsum.photos/seed/user/100/100"]

\* String(b) of a boolean b.
String(b) == IF b THEN "true" ELSE "false"

\* The value of member name of the JSON object doc.
Member(doc, name) ==
    doc[CHOOSE i \in 1..Len(doc) : doc[i][1] = name][2]

\* JSON.stringify(user).
stringifyUser(u) ==
    Json(<< <<"name", u.name>>, <<"email", u.email>>,
            <<"avatarUrl", u.avatarUrl>> >>)

\* JSON.parse of a stored user.
parseUser(item) ==
    [name |-> Member(item.value, "name"), email |-> Member(item.value, "email"),
     avatarUrl |-> Member(item.value, "avatarUrl")]

\* JSON.stringify(playlist).
stringifyPlaylist(p) ==
    Json([i \in 1..Len(p) |->
            << <<"id", p[i].id>>, <<"title", p[i].title>>,
               <<"description", p[i].description>>,
               <<"category", p[i].category>> >>])

\* JSON.parse of a stored playlist.
parsePlaylist(item) ==
    [i \in 1..Len(item.value) |->
        [id |-> Member(item.value[i], "id"),
         category |-> Member(item.value[i], "category"),
         title |-> Member(item.value[i], "title"),
         description |-> Member(item.value[i], "description")]]

\* The keys of localStorage the state is kept under.
Keys == {"theme", "language", "isLoggedIn", "user", "isAutoplayEnabled",
         "deviceView", "playlist"}

\* The members of the Theme enum, of LanguageCode and of DeviceView.
Themes == {"light", "dark"}
LanguageCodes == {"en", "pt", "es", "fr", "zh", "ko", "de"}
DeviceViews == {"desktop", "smartphone"}

\* What localStorage may hold when the page is opened: per key, nothing, an
\* item the application wrote in an earlier session, or text the
\* application never writes. The keys are written by separate effects and
\* read independently. Here the session and the playlist vary and no
\* preference was saved yet.
InitialStorages ==
    { [k \in Keys |-> CASE k = "isLoggedIn" -> l [] k = "user" -> u
                        [] k = "playlist" -> p [] OTHER -> Absent] :
        l \in {Absent, Text("true"), Text("false")},
        u \in {Absent, Malformed, stringifyUser(JaneDoe)},
        p \in {Absent, Malformed, stringifyPlaylist(<<MOCK_VIDEOS[2]>>),
               stringifyPlaylist(<<MOCK_VIDEOS[3], MOCK_VIDEOS[1]>>)} }

\* The same with the preferences varying.
PreferenceStorages ==
    { [k \in Keys |-> CASE k = "theme" -> th [] k = "language" -> la
                        [] k = "isAutoplayEnabled" -> au
                        [] k = "deviceView" -> dv
                        [] k = "isLoggedIn" -> se[1] [] k = "user" -> se[2]
                        [] OTHER -> p] :
        th \in {Absent, Text("light"), Text("purple")},
        la \in {Absent, Text("pt"), Text("xx")},
        au \in {Absent, Text("false"), Text("yes")},
        dv \in {Absent, Text("smartphone"), Text("tablet")},
        se \in {<<Absent, Absent>>, <<Text("true"), stringifyUser(JaneDoe)>>,
                <<Text("false"), Malformed>>},
        p \in {Absent, Malformed, stringifyPlaylist(<<MOCK_VIDEOS[2]>>)} }

\* getItem(key) is truthy: the item is there and is not the empty text.
Truthy(item) == item # Absent /\ item # Text("")

\* useState initializer of isLoggedIn.
LoadIsLoggedIn(st) == st["isLoggedIn"] = Text("true")

\* JSON.parse(savedUser) throws: nothing catches it and the render fails.
LoadUserThrows(st) == st["user"] = Malformed

\* useState initializer of user.
LoadUser(st) ==
    IF st["user"].kind = "json" THEN <<parseUser(st["user"])>> ELSE nullUser

\* useState initializer of theme: the stored text, cast to Theme.
LoadTheme(st) == IF Truthy(st["theme"]) THEN st["theme"].text ELSE "dark"

\* useState initializer of language: the stored text, cast to LanguageCode.
LoadLanguage(st) == IF Truthy(st["language"]) THEN st["language"].text ELSE "en"

\* useState initializer of isAutoplayEnabled.
LoadAutoplay(st) == st["isAutoplayEnabled"] # Text("false")

\* useState initializer of deviceView: the stored text, cast to DeviceView.
LoadDeviceView(st) ==
    IF Truthy(st["deviceView"]) THEN st["deviceView"].text ELSE "desktop"

\* A playlist initializer without the try/catch: the parse error escapes.
LoadPlaylistUncaught(st) == st["playlist"] = Malformed

\* The playlist initializer throws: never, its try/catch returns [].
LoadPlaylistThrows(st) == FALSE

\* useState initializer of playlist: a parse error is caught and logged.
LoadPlaylist(st) ==
    IF st["playlist"].kind = "json" THEN parsePlaylist(st["playlist"]) ELSE <<>>

\* The effect on [theme].
PersistTheme(st, th) == [st EXCEPT !["theme"] = Text(th)]

\* The effect on [language].
PersistLanguage(st, la) == [st EXCEPT !["language"] = Text(la)]

\* An effect that only ever sets the user item.
PersistSessionKeepsUser(st, l, u) ==
    [st EXCEPT !["isLoggedIn"] = Text(String(l)),
               !["user"] = IF u # nullUser THEN stringifyUser(u[1]) ELSE @]

\* The effect on [isLoggedIn, user].
PersistSession(st, l, u) ==
    [st EXCEPT !["isLoggedIn"] = Text(String(l)),
               !["user"] = IF u # nullUser THEN stringifyUser(u[1]) ELSE Absent]

\* The effect on [isAutoplayEnabled].
PersistAutoplay(st, au) == [st EXCEPT !["isAutoplayEnabled"] = Text(String(au))]

\* The effect on [deviceView].
PersistDeviceView(st, dv) == [st EXCEPT !["deviceView"] = Text(dv)]

\* A playlist effect that writes nothing.
PersistPlaylistNothing(st, p) == st

\* The effect on [playlist].
PersistPlaylist(st, p) == [st EXCEPT !["playlist"] = stringifyPlaylist(p)]

\* The storage after all six persistence effects ran, as they do on mount.
PersistAll(st, th, la, l, u, au, dv, p) ==
    PersistPlaylist(
        PersistDeviceView(
            PersistAutoplay(
                PersistSession(PersistLanguage(PersistTheme(st, th), la), l, u),
                au),
            dv),
        p)

-----------------------------------------------------------------------------
(* The playlist.                                                           *)

\* An updater that puts a new entry first.
togglePlaylistPrepend(currentPlaylist, video) ==
    LET exists == \E i \in 1..Len(currentPlaylist) : currentPlaylist[i].id = video.id
        Other(v) == v.id # video.id
    IN  IF exists
        THEN SelectSeq(currentPlaylist, Other)
        ELSE <<video>> \o currentPlaylist

\* An updater whose filter keeps the entry it should drop.
togglePlaylistKeepsMatch(currentPlaylist, video) ==
    LET exists == \E i \in 1..Len(currentPlaylist) : currentPlaylist[i].id = video.id
        Same(v) == v.id = video.id
    IN  IF exists
        THEN SelectSeq(currentPlaylist, Same)
        ELSE Append(currentPlaylist, video)

\* An updater that does not look for the entry.
togglePlaylistAlwaysAppend(currentPlaylist, video) ==
    Append(currentPlaylist, video)

\* The updater togglePlaylist hands to setPlaylist.
togglePlaylist(currentPlaylist, video) ==
    LET exists == \E i \in 1..Len(currentPlaylist) : currentPlaylist[i].id = video.id
        Other(v) == v.id # video.id
    IN  IF exists
        THEN SelectSeq(currentPlaylist, Other)
        ELSE Append(currentPlaylist, video)

-----------------------------------------------------------------------------
(* The filter effect.                                                      *)

\* A text filter that compares the titles and descriptions as written.
filterVideosCaseSensitive(query, category, list) ==
    LET InCategory(v) == v.category = category
        base == IF category = MyPlaylist
                THEN list
                ELSE IF category # null
                     THEN SelectSeq(MOCK_VIDEOS, InCategory)
                     ELSE MOCK_VIDEOS
        lowercasedQuery == toLowerCase(query)
        Matches(v) == \/ includes(v.title, lowercasedQuery)
                      \/ includes(v.description, lowercasedQuery)
    IN  IF query # <<>> THEN SelectSeq(base, Matches) ELSE base

\* A setTimeout whose callback is never queued.
setTimeoutLost(ts, id, query, category, list) == ts

\* The body of the timer callback, over the values its closure captured.
filterVideos(query, category, list) ==
    LET InCategory(v) == v.category = category
        base == IF category = MyPlaylist
                THEN list
                ELSE IF category # null
                     THEN SelectSeq(MOCK_VIDEOS, InCategory)
                     ELSE MOCK_VIDEOS
        lowercasedQuery == toLowerCase(query)
        Matches(v) == \/ includes(toLowerCase(v.title), lowercasedQuery)
                      \/ includes(toLowerCase(v.description), lowercasedQuery)
    IN  IF query # <<>> THEN SelectSeq(base, Matches) ELSE base

\* A cleanup that clears nothing.
clearTimeoutNothing(ts, id) == ts

\* clearTimeout(id): the callback with that handle is dropped, if pending.
clearTimeout(ts, id) == {t \in ts : t.id # id}

\* A handle no pending timer has.
NewTimerId(ts) ==
    CHOOSE i \in 1..(Cardinality(ts) + 1) :
        /\ \A t \in ts : t.id # i
        /\ \A j \in 1..(i - 1) : \E t \in ts : t.id = j

\* A setTimeout with no delay: the callback is due at once.
setTimeoutNoDelay(ts, id, query, category, list) ==
    ts \cup {[id |-> id, elapsed |-> Delay, searchQuery |-> query,
              selectedCategory |-> category, playlist |-> list]}

\* setTimeout(callback, Delay), the callback closing over the render's values.
setTimeout(ts, id, query, category, list) ==
    ts \cup {[id |-> id, elapsed |-> 0, searchQuery |-> query,
              selectedCategory |-> category, playlist |-> list]}

\* A dependency array without playlist.
FilterDepsWithoutPlaylist(query, category, list) ==
    \/ query # searchQuery
    \/ category # selectedCategory

\* The dependency array [searchQuery, selectedCategory, playlist] against
\* the previous render's. A toggle always yields a different array.
FilterDepsChanged(query, category, list) ==
    \/ query # searchQuery
    \/ category # selectedCategory
    \/ list # playlist

\* The effect re-run: the previous run's cleanup, then the new timer.
FilterEffect(query, category, list) ==
    LET cleared == clearTimeout(timers, timer)
        id == NewTimerId(cleared)
    IN  /\ timers' = setTimeout(cleared, id, query, category, list)
        /\ timer' = id

\* History of a change of the filter inputs: it continues the burst when it
\* comes less than Delay after the previous change, and starts one otherwise.
NoteChange ==
    /\ sinceChange' = 0
    /\ burstLen' = IF sinceChange < Delay THEN Min(burstLen + 1, MaxBurst) ELSE 1
    /\ burstRuns' = IF sinceChange < Delay THEN burstRuns ELSE 0

\* The effects of the render that follows a handler: the filter effect runs
\* when one of its dependencies changed.
AfterRender(query, category, list) ==
    IF FilterDepsChanged(query, category, list)
    THEN FilterEffect(query, category, list) /\ NoteChange
    ELSE UNCHANGED <<timers, timer, sinceChange, burstLen, burstRuns>>

-----------------------------------------------------------------------------
(* The initial state: the first render and the effects of the mount.       *)

\* What a session has in memory and has saved.
Saved ==
    [theme |-> theme, language |-> language,
     isAutoplayEnabled |-> isAutoplayEnabled, deviceView |-> deviceView,
     isLoggedIn |-> isLoggedIn, user |-> user, playlist |-> playlist]

\* The state after the page was loaded over the storage st: the useState
\* initializers in the order of the source, then the effects of the mount.
\* An initializer that throws ends the render; a setItem that throws (full)
\* ends its effect, and React removes the tree, whose cleanups run. before
\* is history: what the previous session of this run had saved, if any.
PageLoad(st, full, before) ==
    LET renderThrows == LoadUserThrows(st) \/ LoadPlaylistThrows(st)
        crashed == renderThrows \/ full
        u == IF LoadUserThrows(st) THEN nullUser ELSE LoadUser(st)
        th == IF LoadUserThrows(st) THEN "dark" ELSE LoadTheme(st)
        la == IF LoadUserThrows(st) THEN "en" ELSE LoadLanguage(st)
        au == IF LoadUserThrows(st) THEN TRUE ELSE LoadAutoplay(st)
        dv == IF LoadUserThrows(st) THEN "desktop" ELSE LoadDeviceView(st)
        p == IF renderThrows THEN <<>> ELSE LoadPlaylist(st)
    IN  [phase |-> IF crashed THEN "crashed" ELSE "running",
         isLoggedIn |-> LoadIsLoggedIn(st),
         user |-> u,
         theme |-> th,
         language |-> la,
         isAutoplayEnabled |-> au,
         deviceView |-> dv,
         playlist |-> p,
         storage |-> IF crashed
                     THEN st
                     ELSE PersistAll(st, th, la, LoadIsLoggedIn(st), u, au, dv, p),
         timers |-> IF crashed THEN {} ELSE setTimeout({}, 1, <<>>, null, p),
         timer |-> IF crashed THEN 0 ELSE 1,
         lastEvent |-> [op |-> "mount", storage |-> st, before |-> before]]

\* The page is opened over a storage that has room.
InitFrom(st) ==
    LET m == PageLoad(st, FALSE, <<>>)
    IN  /\ phase = m.phase
        /\ isLoggedIn = m.isLoggedIn
        /\ user = m.user
        /\ theme = m.theme
        /\ language = m.language
        /\ isAutoplayEnabled = m.isAutoplayEnabled
        /\ deviceView = m.deviceView
        /\ playlist = m.playlist
        /\ activeModal = null
        /\ videos = <<>>
        /\ searchQuery = <<>>
        /\ selectedCategory = null
        /\ storage = m.storage
        /\ quotaExceeded = FALSE
        /\ timers = m.timers
        /\ timer = m.timer
        /\ sinceChange = Delay
        /\ burstLen = 0
        /\ burstRuns = 0
        /\ lastEvent = m.lastEvent

Init == \E st \in InitialStorages : InitFrom(st)

\* The page is opened over saved or foreign preferences.
PreferenceInit == \E st \in PreferenceStorages : InitFrom(st)

-----------------------------------------------------------------------------
(* The translation lookup. A dictionary is the set of its leaves: the path *)
(* of property names to a string, and the string. The values the walk of t *)
(* passes through are undefined, an object of a dictionary (the path to    *)
(* it) or a string.                                                        *)

\* The characters of the keys handed to t.
KeyAlphabet == {"a", "b", "c", "d", "."}

\* The keys handed to t.
TranslationKeys == UNION {[1..n -> KeyAlphabet] : n \in 0..MaxKeyLen}

\* The dictionaries: en { a: { b, c }, ab, d }, pt { a: { b }, d: { a } },
\* es { }; the other languages have none.
TRANSLATIONS ==
    [lang \in {"en", "pt", "es"} |->
        CASE lang = "en" ->
                 {[path |-> << <<"a">>, <<"b">> >>, text |-> <<"E", "1">>],
                  [path |-> << <<"a">>, <<"c">> >>, text |-> <<"E", "2">>],
                  [path |-> << <<"a", "b">> >>, text |-> <<"E", "3">>],
                  [path |-> << <<"d">> >>, text |-> <<"E", "4">>]}
          [] lang = "pt" ->
                 {[path |-> << <<"a">>, <<"b">> >>, text |-> <<"P", "1">>],
                  [path |-> << <<"d">>, <<"a">> >>, text |-> <<"P", "5">>]}
          [] OTHER -> {}]

Undefined == [kind |-> "undefined"]
ObjectAt(lang, path) == [kind |-> "object", lang |-> lang, path |-> path]
StringValue(text) == [kind |-> "string", text |-> text]

\* TRANSLATIONS[lang].
Dictionary(lang) ==
    IF lang \in DOMAIN TRANSLATIONS THEN ObjectAt(lang, <<>>) ELSE Undefined

\* key.split('.')
RECURSIVE split(_)
split(key) ==
    IF \E i \in 1..Len(key) : key[i] = "."
    THEN LET dot == CHOOSE i \in 1..Len(key) :
                        /\ key[i] = "."
                        /\ \A j \in 1..(i - 1) : key[j] # "."
         IN  <<SubSeq(key, 1, dot - 1)>> \o split(SubSeq(key, dot + 1, Len(key)))
    ELSE <<key>>

\* k in result, for an object result.
HasProperty(result, k) ==
    \E leaf \in TRANSLATIONS[result.lang] :
        /\ Len(leaf.path) > Len(result.path)
        /\ SubSeq(leaf.path, 1, Len(result.path) + 1) = Append(result.path, k)

\* result[k], for an object result that has k.
Property(result, k) ==
    LET path == Append(result.path, k)
    IN  IF \E leaf \in TRANSLATIONS[result.lang] : leaf.path = path
        THEN StringValue((CHOOSE leaf \in TRANSLATIONS[result.lang] :
                              leaf.path = path).text)
        ELSE ObjectAt(result.lang, path)

\* The for loop of t from segment i on: a segment the current value does
\* not have ends the walk with undefined.
RECURSIVE Walk(_, _, _)
Walk(result, keys, i) ==
    IF i > Len(keys)
    THEN result
    ELSE IF result.kind = "object" /\ HasProperty(result, keys[i])
         THEN Walk(Property(result, keys[i]), keys, i + 1)
         ELSE Undefined

\* A lookup that gives the key back when the language has no string.
translateWithoutFallback(key, lang) ==
    LET keys == split(key)
        result == Walk(Dictionary(lang), keys, 1)
    IN  IF result.kind = "string" THEN result ELSE StringValue(key)

\* t(key) in a render whose language is lang (t names the timers here).
translate(key, lang) ==
    LET keys == split(key)
        result == Walk(Dictionary(lang), keys, 1)
        fallbackResult == Walk(Dictionary("en"), keys, 1)
    IN  IF result.kind = "string"
        THEN result
        ELSE IF fallbackResult.kind = "string"
             THEN fallbackResult
             ELSE StringValue(key)

-----------------------------------------------------------------------------
(* The events.                                                             *)

\* A setItem threw in an effect: nothing is written, no boundary catches
\* the error, and React removes the tree, whose effect cleanups run.
EffectThrows ==
    /\ phase' = "crashed"
    /\ storage' = storage
    /\ timers' = {}
    /\ UNCHANGED <<timer, sinceChange, burstLen, burstRuns>>

\* onSearchChange={setSearchQuery}
SetSearchQuery(query) ==
    /\ phase = "running"
    /\ searchQuery' = query
    /\ AfterRender(query, selectedCategory, playlist)
    /\ lastEvent' = [op |-> "setSearchQuery"]
    /\ UNCHANGED <<theme, language, isAutoplayEnabled, deviceView, quotaExceeded>>
    /\ UNCHANGED <<phase, isLoggedIn, user, playlist, activeModal, videos,
                   selectedCategory, storage>>

\* onCategorySelect={setSelectedCategory}
SetSelectedCategory(category) ==
    /\ phase = "running"
    /\ selectedCategory' = category
    /\ AfterRender(searchQuery, category, playlist)
    /\ lastEvent' = [op |-> "setSelectedCategory"]
    /\ UNCHANGED <<theme, language, isAutoplayEnabled, deviceView, quotaExceeded>>
    /\ UNCHANGED <<phase, isLoggedIn, user, playlist, activeModal, videos,
                   searchQuery, storage>>

\* onTogglePlaylist={togglePlaylist}
TogglePlaylist(video) ==
    /\ phase = "running"
    /\ playlist' = togglePlaylist(playlist, video)
    /\ IF quotaExceeded
       THEN EffectThrows
       ELSE /\ storage' = PersistPlaylist(storage, playlist')
            /\ AfterRender(searchQuery, selectedCategory, playlist')
            /\ UNCHANGED phase
    /\ lastEvent' = [op |-> "togglePlaylist", video |-> video, before |-> playlist]
    /\ UNCHANGED <<theme, language, isAutoplayEnabled, deviceView, quotaExceeded>>
    /\ UNCHANGED <<isLoggedIn, user, activeModal, videos, searchQuery,
                   selectedCategory>>

\* A login that accepts the registered credentials only.
LoginUserChecked(credentials) ==
    IF credentials = "registered" THEN <<JaneDoe>> ELSE nullUser

\* The profile handleLogin sets for the credentials it is given.
LoginUser(credentials) == <<JaneDoe>>

\* onLogin={handleLogin}
HandleLogin(credentials) ==
    /\ phase = "running"
    /\ user' = LoginUser(credentials)
    /\ isLoggedIn' = TRUE
    /\ activeModal' = null
    /\ IF quotaExceeded
       THEN EffectThrows
       ELSE /\ storage' = PersistSession(storage, isLoggedIn', user')
            /\ UNCHANGED <<phase, timers, timer, sinceChange, burstLen,
                           burstRuns>>
    /\ lastEvent' = [op |-> "handleLogin", credentials |-> credentials,
                     modal |-> activeModal]
    /\ UNCHANGED <<theme, language, isAutoplayEnabled, deviceView, quotaExceeded>>
    /\ UNCHANGED <<playlist, videos, searchQuery, selectedCategory>>

\* The dependency array [isLoggedIn, user] against the previous render's.
SessionDepsChanged(l, u) == l # isLoggedIn \/ u # user

\* A logout that always clears the category.
LogoutCategoryCleared(category) == null

\* The category handleLogout leaves selected.
LogoutCategory(category) == IF category = MyPlaylist THEN null ELSE category

\* onLogout={handleLogout}
HandleLogout ==
    /\ phase = "running"
    /\ user' = nullUser
    /\ isLoggedIn' = FALSE
    /\ selectedCategory' = LogoutCategory(selectedCategory)
    /\ IF SessionDepsChanged(isLoggedIn', user') /\ quotaExceeded
       THEN EffectThrows
       ELSE /\ storage' = IF SessionDepsChanged(isLoggedIn', user')
                          THEN PersistSession(storage, isLoggedIn', user')
                          ELSE storage
            /\ AfterRender(searchQuery, selectedCategory', playlist)
            /\ UNCHANGED phase
    /\ lastEvent' = [op |-> "handleLogout", category |-> selectedCategory]
    /\ UNCHANGED <<theme, language, isAutoplayEnabled, deviceView, quotaExceeded>>
    /\ UNCHANGED <<playlist, activeModal, videos, searchQuery>>

\* onOpenModal={handleOpenModal}
HandleOpenModal(modalType) ==
    /\ phase = "running"
    /\ activeModal' = modalType
    /\ lastEvent' = [op |-> "handleOpenModal", modalType |-> modalType]
    /\ UNCHANGED <<theme, language, isAutoplayEnabled, deviceView, quotaExceeded>>
    /\ UNCHANGED <<phase, isLoggedIn, user, playlist, videos, searchQuery,
                   selectedCategory, storage, timers, timer, sinceChange,
                   burstLen, burstRuns>>

\* onClose={handleCloseModal}
HandleCloseModal ==
    /\ phase = "running"
    /\ activeModal' = null
    /\ lastEvent' = [op |-> "handleCloseModal"]
    /\ UNCHANGED <<theme, language, isAutoplayEnabled, deviceView, quotaExceeded>>
    /\ UNCHANGED <<phase, isLoggedIn, user, playlist, videos, searchQuery,
                   selectedCategory, storage, timers, timer, sinceChange,
                   burstLen, burstRuns>>

\* A switch that closes the open modal and leaves the other to be opened.
SwitchToClosed(modalType) == null

\* The modal a switch callback hands to setActiveModal.
SwitchTo(modalType) == modalType

\* onSwitchToSignUp / onSwitchToSignIn, which the open modal offers.
SwitchModal(modalType) ==
    /\ phase = "running"
    /\ activeModal # null
    /\ activeModal' = SwitchTo(modalType)
    /\ lastEvent' = [op |-> "switchModal", from |-> activeModal,
                     to |-> modalType]
    /\ UNCHANGED <<theme, language, isAutoplayEnabled, deviceView, quotaExceeded>>
    /\ UNCHANGED <<phase, isLoggedIn, user, playlist, videos, searchQuery,
                   selectedCategory, storage, timers, timer, sinceChange,
                   burstLen, burstRuns>>

\* A pending timer's callback runs, once Delay has elapsed since setTimeout.
\* The event loop keeps a timer whatever became of the component; setVideos
\* of a component that is gone changes nothing.
TimerFire(t) ==
    /\ t \in timers
    /\ t.elapsed >= Delay
    /\ videos' = IF phase = "running"
                 THEN filterVideos(t.searchQuery, t.selectedCategory, t.playlist)
                 ELSE videos
    /\ timers' = timers \ {t}
    /\ burstRuns' = Min(burstRuns + 1, MaxRuns)
    /\ lastEvent' = [op |-> "timer", searchQuery |-> t.searchQuery,
                     selectedCategory |-> t.selectedCategory,
                     playlist |-> t.playlist]
    /\ UNCHANGED <<theme, language, isAutoplayEnabled, deviceView, quotaExceeded>>
    /\ UNCHANGED <<phase, isLoggedIn, user, playlist, activeModal, searchQuery,
                   selectedCategory, storage, timer, sinceChange, burstLen>>

\* Time passes; a timer may run later than its delay, never sooner.
Tick ==
    /\ phase = "running" \/ timers # {}
    /\ sinceChange < Delay \/ \E t \in timers : t.elapsed < Delay
    /\ timers' = {[t EXCEPT !.elapsed = Min(@ + TickStep, Delay)] : t \in timers}
    /\ sinceChange' = Min(sinceChange + TickStep, Delay)
    /\ lastEvent' = [op |-> "tick"]
    /\ UNCHANGED <<theme, language, isAutoplayEnabled, deviceView, quotaExceeded>>
    /\ UNCHANGED <<phase, isLoggedIn, user, playlist, activeModal, videos,
                   searchQuery, selectedCategory, storage, timer, burstLen,
                   burstRuns>>

\* The component is torn down: the filter effect's cleanup runs.
Unmount ==
    /\ phase = "running"
    /\ phase' = "unmounted"
    /\ timers' = clearTimeout(timers, timer)
    /\ lastEvent' = [op |-> "unmount", videos |-> videos]
    /\ UNCHANGED <<theme, language, isAutoplayEnabled, deviceView, quotaExceeded>>
    /\ UNCHANGED <<isLoggedIn, user, playlist, activeModal, videos, searchQuery,
                   selectedCategory, storage, timer, sinceChange, burstLen,
                   burstRuns>>

\* The theme toggleTheme's updater yields.
toggleTheme(prev) == IF prev = "light" THEN "dark" ELSE "light"

\* onToggleTheme={toggleTheme}
ToggleTheme ==
    /\ phase = "running"
    /\ theme' = toggleTheme(theme)
    /\ IF quotaExceeded
       THEN EffectThrows
       ELSE /\ storage' = PersistTheme(storage, theme')
            /\ UNCHANGED <<phase, timers, timer, sinceChange, burstLen,
                           burstRuns>>
    /\ lastEvent' = [op |-> "toggleTheme"]
    /\ UNCHANGED <<isLoggedIn, user, language, isAutoplayEnabled, deviceView,
                   playlist, activeModal, videos, searchQuery,
                   selectedCategory, quotaExceeded>>

\* setLanguage={setLanguage}: the effect runs when the language changed.
SetLanguage(code) ==
    /\ phase = "running"
    /\ language' = code
    /\ IF code # language /\ quotaExceeded
       THEN EffectThrows
       ELSE /\ storage' = IF code # language
                          THEN PersistLanguage(storage, code)
                          ELSE storage
            /\ UNCHANGED <<phase, timers, timer, sinceChange, burstLen,
                           burstRuns>>
    /\ lastEvent' = [op |-> "setLanguage", changed |-> code # language]
    /\ UNCHANGED <<isLoggedIn, user, theme, isAutoplayEnabled, deviceView,
                   playlist, activeModal, videos, searchQuery,
                   selectedCategory, quotaExceeded>>

\* onToggleAutoplay={toggleAutoplay}
ToggleAutoplay ==
    /\ phase = "running"
    /\ isAutoplayEnabled' = ~isAutoplayEnabled
    /\ IF quotaExceeded
       THEN EffectThrows
       ELSE /\ storage' = PersistAutoplay(storage, isAutoplayEnabled')
            /\ UNCHANGED <<phase, timers, timer, sinceChange, burstLen,
                           burstRuns>>
    /\ lastEvent' = [op |-> "toggleAutoplay"]
    /\ UNCHANGED <<isLoggedIn, user, theme, language, deviceView, playlist,
                   activeModal, videos, searchQuery, selectedCategory,
                   quotaExceeded>>

\* setDeviceView={setDeviceView}: the effect runs when the view changed.
SetDeviceView(view) ==
    /\ phase = "running"
    /\ deviceView' = view
    /\ IF view # deviceView /\ quotaExceeded
       THEN EffectThrows
       ELSE /\ storage' = IF view # deviceView
                          THEN PersistDeviceView(storage, view)
                          ELSE storage
            /\ UNCHANGED <<phase, timers, timer, sinceChange, burstLen,
                           burstRuns>>
    /\ lastEvent' = [op |-> "setDeviceView", changed |-> view # deviceView]
    /\ UNCHANGED <<isLoggedIn, user, theme, language, isAutoplayEnabled,
                   playlist, activeModal, videos, searchQuery,
                   selectedCategory, quotaExceeded>>

\* The environment: from now on localStorage.setItem throws.
StorageFills ==
    /\ phase = "running"
    /\ ~quotaExceeded
    /\ quotaExceeded' = TRUE
    /\ UNCHANGED <<phase, isLoggedIn, user, theme, language, isAutoplayEnabled,
                   deviceView, playlist, activeModal, videos, searchQuery,
                   selectedCategory, storage, timers, timer, sinceChange,
                   burstLen, burstRuns, lastEvent>>

\* The page is loaded again over the storage the last session left: the
\* old page and its timers are gone, and the state is initialized anew.
Reload ==
    LET m == PageLoad(storage, quotaExceeded,
                      IF phase = "crashed" THEN <<>> ELSE <<Saved>>)
    IN  /\ phase' = m.phase
        /\ isLoggedIn' = m.isLoggedIn
        /\ user' = m.user
        /\ theme' = m.theme
        /\ language' = m.language
        /\ isAutoplayEnabled' = m.isAutoplayEnabled
        /\ deviceView' = m.deviceView
        /\ playlist' = m.playlist
        /\ activeModal' = null
        /\ videos' = <<>>
        /\ searchQuery' = <<>>
        /\ selectedCategory' = null
        /\ storage' = m.storage
        /\ timers' = m.timers
        /\ timer' = m.timer
        /\ sinceChange' = Delay
        /\ burstLen' = 0
        /\ burstRuns' = 0
        /\ lastEvent' = m.lastEvent
        /\ UNCHANGED quotaExceeded

\* A component of the tree calls t(key) with the language of the render.
Translate(key) ==
    /\ phase = "running"
    /\ lastEvent' = [op |-> "t", key |-> key, result |-> translate(key, language)]
    /\ UNCHANGED <<phase, isLoggedIn, user, theme, language, isAutoplayEnabled,
                   deviceView, playlist, activeModal, videos, searchQuery,
                   selectedCategory, storage, quotaExceeded, timers, timer,
                   sinceChange, burstLen, burstRuns>>

Next ==
    \/ \E query \in Queries : SetSearchQuery(query)
    \/ \E category \in Categories : SetSelectedCategory(category)
    \/ \E video \in Range(MOCK_VIDEOS) : TogglePlaylist(video)
    \/ \E credentials \in Credentials : HandleLogin(credentials)
    \/ HandleLogout
    \/ \E modalType \in ModalTypes : HandleOpenModal(modalType)
    \/ HandleCloseModal
    \/ \E modalType \in ModalTypes : SwitchModal(modalType)
    \/ ToggleTheme
    \/ \E code \in LanguageCodes : SetLanguage(code)
    \/ ToggleAutoplay
    \/ \E view \in DeviceViews : SetDeviceView(view)
    \/ \E t \in timers : TimerFire(t)
    \/ Tick
    \/ Unmount
    \/ StorageFills
    \/ Reload
    \/ \E key \in TranslationKeys : Translate(key)

Spec == Init /\ [][Next]_vars

\* The events that read or write the inputs of the filter effect, its timer
\* or the visible set.
FilterNext ==
    \/ \E query \in Queries : SetSearchQuery(query)
    \/ \E category \in Categories : SetSelectedCategory(category)
    \/ \E video \in Range(MOCK_VIDEOS) : TogglePlaylist(video)
    \/ HandleLogout
    \/ \E t \in timers : TimerFire(t)
    \/ Tick
    \/ Unmount

FilterSpec == Init /\ [][FilterNext]_vars

\* The same events with one video to toggle.
LiveNext ==
    \/ \E query \in Queries : SetSearchQuery(query)
    \/ \E category \in Categories : SetSelectedCategory(category)
    \/ TogglePlaylist(MOCK_VIDEOS[1])
    \/ HandleLogout
    \/ \E t \in timers : TimerFire(t)
    \/ Tick
    \/ Unmount

\* The event loop runs a due timer callback, and time passes.
FairFilterSpec ==
    /\ Init /\ [][LiveNext]_vars
    /\ WF_vars(\E t \in timers : TimerFire(t))
    /\ WF_vars(Tick)

\* The events that read or write the playlist.
PlaylistNext ==
    \/ \E video \in Range(MOCK_VIDEOS) : TogglePlaylist(video)
    \/ \E t \in timers : TimerFire(t)
    \/ Tick
    \/ Unmount

PlaylistSpec == Init /\ [][PlaylistNext]_vars

\* The events that read or write the session, the modal or the category.
SessionNext ==
    \/ \E category \in Categories : SetSelectedCategory(category)
    \/ \E credentials \in Credentials : HandleLogin(credentials)
    \/ HandleLogout
    \/ \E modalType \in ModalTypes : HandleOpenModal(modalType)
    \/ HandleCloseModal
    \/ \E modalType \in ModalTypes : SwitchModal(modalType)
    \/ \E t \in timers : TimerFire(t)
    \/ Tick
    \/ Unmount

SessionSpec == Init /\ [][SessionNext]_vars

\* The events that change what is saved, a storage that stops taking
\* writes, and the next page load.
PersistNext ==
    \/ ToggleTheme
    \/ \E code \in LanguageCodes : SetLanguage(code)
    \/ ToggleAutoplay
    \/ \E view \in DeviceViews : SetDeviceView(view)
    \/ \E credentials \in Credentials : HandleLogin(credentials)
    \/ HandleLogout
    \/ TogglePlaylist(MOCK_VIDEOS[1])
    \/ Unmount
    \/ StorageFills
    \/ Reload

PersistSpec == PreferenceInit /\ [][PersistNext]_vars

\* The page is opened over a saved or foreign language.
LanguageStorages ==
    { [k \in Keys |-> IF k = "language" THEN la ELSE Absent] :
        la \in {Absent, Text("pt"), Text("xx")} }

LanguageInit == \E st \in LanguageStorages : InitFrom(st)

\* The language changes and texts are looked up.
TranslateNext ==
    \/ \E code \in LanguageCodes : SetLanguage(code)
    \/ \E key \in TranslationKeys : Translate(key)

TranslateSpec == LanguageInit /\ [][TranslateNext]_vars

-----------------------------------------------------------------------------
(* The filter inputs and the result the visible set should show for them.  *)

FilterInputs == <<searchQuery, selectedCategory, playlist>>

\* Character c of the alphabet without its case.
Caseless(c) ==
    IF \E k \in 1..Len(LowerCase) : LowerCase[k] = c
    THEN UpperCase[CHOOSE k \in 1..Len(LowerCase) : LowerCase[k] = c]
    ELSE c

\* text contains query, case ignored.
ContainsIgnoringCase(text, query) ==
    \E off \in 0..(Len(text) - Len(query)) :
        \A k \in 1..Len(query) : Caseless(text[off + k]) = Caseless(query[k])

\* The positions of base that the reference result keeps.
KeptPositions(base, query) ==
    {i \in 1..Len(base) :
        \/ query = <<>>
        \/ ContainsIgnoringCase(base[i].title, query)
        \/ ContainsIgnoringCase(base[i].description, query)}

\* The base sequence of the reference result.
ReferenceBase(category, list) ==
    IF category = MyPlaylist
    THEN list
    ELSE LET Chosen == {i \in 1..Len(MOCK_VIDEOS) :
                           category = null \/ MOCK_VIDEOS[i].category = category}
             Nth(k) == CHOOSE i \in Chosen : Cardinality({j \in Chosen : j <= i}) = k
         IN  [k \in 1..Cardinality(Chosen) |-> MOCK_VIDEOS[Nth(k)]]

\* result is the reference result: the kept entries of the base, in base order.
IsReferenceResult(result, query, category, list) ==
    LET base == ReferenceBase(category, list)
        Kept == KeptPositions(base, query)
        Nth(k) == CHOOSE i \in Kept : Cardinality({j \in Kept : j <= i}) = k
    IN  /\ Len(result) = Cardinality(Kept)
        /\ \A k \in 1..Len(result) : result[k] = base[Nth(k)]

-----------------------------------------------------------------------------
(* C1. Debounce. As stated: every burst of changes arriving less than      *)
(* Delay apart gets exactly one recomputation, with the values of the last *)
(* change: while that recomputation is pending none has run and it is the  *)
(* only one pending, and once nothing is pending exactly one has run.      *)
C1_ExactlyOnePerBurst ==
    burstLen >= 1 =>
        /\ Cardinality(timers) <= 1
        /\ \A t \in timers :
              /\ burstRuns = 0
              /\ <<t.searchQuery, t.selectedCategory, t.playlist>> = FilterInputs
        /\ timers = {} =>
              /\ burstRuns = 1
              /\ IsReferenceResult(videos, searchQuery, selectedCategory, playlist)

(* C1, amended. In a burst at most one recomputation runs and none runs    *)
(* before the last change; the one pending is the last change's, with its  *)
(* values, the earlier ones are cancelled; once the timer callback has run *)
(* exactly one has run. Tearing the component down cancels the pending     *)
(* recomputation too, and then none runs.                                  *)
C1_AtMostOnePerBurst ==
    burstLen >= 1 =>
        /\ Cardinality(timers) <= 1
        /\ burstRuns <= 1
        /\ \A t \in timers :
              /\ burstRuns = 0
              /\ <<t.searchQuery, t.selectedCategory, t.playlist>> = FilterInputs
        /\ (timers = {} /\ phase = "running") =>
              /\ burstRuns = 1
              /\ IsReferenceResult(videos, searchQuery, selectedCategory, playlist)
        /\ phase = "unmounted" => timers = {}

\* A burst of MaxBurst changes whose one recomputation has run.
C1_Witness ==
    /\ burstLen = MaxBurst
    /\ burstRuns = 1
    /\ timers = {}
    /\ searchQuery # <<>>

(* C2. A recomputation that has just run used the values of searchQuery,   *)
(* selectedCategory and playlist that are current when it runs.            *)
C2_NoStaleCriteria ==
    lastEvent.op = "timer" =>
        <<lastEvent.searchQuery, lastEvent.selectedCategory, lastEvent.playlist>>
            = FilterInputs

\* A recomputation ran after a burst that changed all three inputs.
C2_Witness ==
    /\ lastEvent.op = "timer"
    /\ burstLen >= 2
    /\ searchQuery # <<>>
    /\ selectedCategory # null
    /\ playlist # <<>>

(* C3. Unless the inputs keep changing or the component is torn down, the  *)
(* visible set eventually equals the result for the latest inputs; and     *)
(* once it equals it, it stays equal for as long as the inputs stay.       *)
C3_EventuallyConsistent ==
    /\ \/ []<><<FilterInputs' # FilterInputs>>_vars
       \/ <>[](phase # "running")
       \/ <>[]IsReferenceResult(videos, searchQuery, selectedCategory, playlist)
    /\ [][(/\ IsReferenceResult(videos, searchQuery, selectedCategory, playlist)
            /\ FilterInputs' = FilterInputs)
            => IsReferenceResult(videos', searchQuery', selectedCategory', playlist')]_vars

\* The visible set has caught up with inputs that differ from the initial ones.
C3_Witness ==
    /\ phase = "running"
    /\ timers = {}
    /\ burstLen >= 1
    /\ videos # MOCK_VIDEOS
    /\ IsReferenceResult(videos, searchQuery, selectedCategory, playlist)

(* C4. A recomputation that has just run left the reference result of the  *)
(* values it used in the visible set: the playlist under 'myPlaylist',     *)
(* else the catalog narrowed to the category if one is selected; of that   *)
(* the entries whose title or description contains the query, case         *)
(* ignored, when the query is not empty; in base order.                    *)
C4_FilterResult ==
    lastEvent.op = "timer" =>
        IsReferenceResult(videos, lastEvent.searchQuery,
                          lastEvent.selectedCategory, lastEvent.playlist)

\* A recomputation over the playlist with a query that keeps part of it.
C4_Witness ==
    /\ lastEvent.op = "timer"
    /\ lastEvent.selectedCategory = MyPlaylist
    /\ lastEvent.searchQuery # <<>>
    /\ Len(videos) >= 1
    /\ Len(videos) < Len(lastEvent.playlist)

-----------------------------------------------------------------------------
(* The playlist claims read the toggle handled last: lastEvent.video is    *)
(* its video and lastEvent.before the playlist it was applied to.          *)

HasId(list, id) == \E i \in 1..Len(list) : list[i].id = id

\* list without its entries of that id, the others in order.
WithoutId(list, id) ==
    LET Kept == {i \in 1..Len(list) : list[i].id # id}
        Nth(k) == CHOOSE i \in Kept : Cardinality({j \in Kept : j <= i}) = k
    IN  [k \in 1..Cardinality(Kept) |-> list[Nth(k)]]

(* C5. As stated: toggling the same video a second time gives back the     *)
(* playlist the first toggle was applied to, wherever the video sat in it. *)
C5_ToggleTwiceIsIdentity ==
    lastEvent.op = "togglePlaylist" =>
        togglePlaylist(playlist, lastEvent.video) = lastEvent.before

(* C5, amended. Toggling a video twice gives back the playlist when the    *)
(* video was not in it or was its last entry; when the video sat before    *)
(* the end, the result holds the same entries with that video moved to the *)
(* end and the others in their order.                                      *)
C5_ToggleTwice ==
    lastEvent.op = "togglePlaylist" =>
        LET P == lastEvent.before
            v == lastEvent.video
            twice == togglePlaylist(playlist, v)
        IN  IF ~HasId(P, v.id) \/ P[Len(P)].id = v.id
            THEN twice = P
            ELSE /\ twice # P
                 /\ Len(twice) = Len(P)
                 /\ twice[Len(twice)] = v
                 /\ SubSeq(twice, 1, Len(twice) - 1) = WithoutId(P, v.id)

\* The last entry of a playlist of several entries was toggled off.
C5_Witness ==
    /\ lastEvent.op = "togglePlaylist"
    /\ Len(lastEvent.before) >= 2
    /\ lastEvent.before[Len(lastEvent.before)].id = lastEvent.video.id
    /\ Len(playlist) = Len(lastEvent.before) - 1

(* C6. A toggle of a video whose id is not in the playlist appends it: it  *)
(* is the last entry, it occurs once, and the earlier entries are as they  *)
(* were. A toggle of a video whose id is in the playlist leaves no entry   *)
(* of that id and keeps the other entries in order.                        *)
C6_ToggleResult ==
    lastEvent.op = "togglePlaylist" =>
        LET P == lastEvent.before
            v == lastEvent.video
        IN  IF ~HasId(P, v.id)
            THEN /\ Len(playlist) = Len(P) + 1
                 /\ playlist[Len(playlist)] = v
                 /\ \A i \in 1..Len(P) : playlist[i] = P[i]
                 /\ Cardinality({i \in 1..Len(playlist) : playlist[i].id = v.id}) = 1
            ELSE /\ ~HasId(playlist, v.id)
                 /\ playlist = WithoutId(P, v.id)

\* A video was appended to a playlist that had entries.
C6_Witness ==
    /\ lastEvent.op = "togglePlaylist"
    /\ lastEvent.before # <<>>
    /\ ~HasId(lastEvent.before, lastEvent.video.id)
    /\ Len(playlist) = Len(MOCK_VIDEOS)

-----------------------------------------------------------------------------
(* C8. The user profile is non-empty exactly when the session is logged    *)
(* in, from the state loaded from storage on; and a logout leaves the      *)
(* profile empty.                                                          *)
C8_UserIffLoggedIn ==
    phase = "running" =>
        /\ (user # nullUser) <=> isLoggedIn
        /\ lastEvent.op = "handleLogout" => user = nullUser

(* C9. A logout while 'myPlaylist' is selected leaves no category          *)
(* selected; a logout while anything else is selected leaves the category  *)
(* as it was.                                                              *)
C9_LogoutCategory ==
    lastEvent.op = "handleLogout" =>
        /\ lastEvent.category = MyPlaylist => selectedCategory = null
        /\ lastEvent.category # MyPlaylist => selectedCategory = lastEvent.category

\* A logout was handled while 'myPlaylist' was selected.
C9_Witness ==
    /\ lastEvent.op = "handleLogout"
    /\ lastEvent.category = MyPlaylist
    /\ selectedCategory = null

(* C10. A login ends logged in, with a profile and with no modal open,     *)
(* whatever the credentials; and while the component is mounted a login    *)
(* is never refused.                                                       *)
C10_LoginUnconditional ==
    /\ lastEvent.op = "handleLogin" =>
          /\ isLoggedIn
          /\ user # nullUser
          /\ activeModal = null
    /\ phase = "running" =>
          \A credentials \in Credentials : ENABLED HandleLogin(credentials)

\* A login without credentials was handled while a modal was open.
C10_Witness ==
    /\ lastEvent.op = "handleLogin"
    /\ lastEvent.credentials = "undefined"
    /\ lastEvent.modal # null
    /\ isLoggedIn

-----------------------------------------------------------------------------
(* The page load.                                                          *)

\* C11: after a page load over a storage whose 'playlist' item is missing
\* or does not parse, the playlist is empty, and the load has not failed on
\* its account: the page is up unless the user item did not parse or
\* storage took no writes.
C11_PlaylistFallsBackToEmpty ==
    (/\ lastEvent.op = "mount"
     /\ lastEvent.storage["playlist"] \in {Absent, Malformed}) =>
        /\ playlist = <<>>
        /\ phase = "crashed" =>
               LoadUserThrows(lastEvent.storage) \/ quotaExceeded

\* The page is up after a load over a 'playlist' item that does not parse.
C11_Witness ==
    /\ lastEvent.op = "mount"
    /\ lastEvent.storage["playlist"] = Malformed
    /\ phase = "running"
    /\ playlist = <<>>
    /\ storage["playlist"] = stringifyPlaylist(<<>>)

\* C12: after a page load over a storage whose 'user' item does not parse,
\* the page is up and user is null.
C12_CorruptUserIsAbsent ==
    (/\ lastEvent.op = "mount"
     /\ lastEvent.storage["user"] = Malformed) =>
        /\ phase = "running"
        /\ user = nullUser

\* The default of a preference whose stored item is missing or is not one
\* of the field's values, and the stored value otherwise.
ValidOrDefault(item, values, default) ==
    IF item.kind = "text" /\ item.text \in values THEN item.text ELSE default

\* C13: after a page load that left the page up, each of theme, language
\* and deviceView is the stored value when that is a value of the field and
\* the field's default otherwise, and autoplay is off only when 'false' was
\* stored; so each is a value of its field.
C13_PreferencesValidOrDefault ==
    (lastEvent.op = "mount" /\ phase = "running") =>
        /\ theme = ValidOrDefault(lastEvent.storage["theme"], Themes, "dark")
        /\ language =
               ValidOrDefault(lastEvent.storage["language"], LanguageCodes, "en")
        /\ deviceView =
               ValidOrDefault(lastEvent.storage["deviceView"], DeviceViews,
                              "desktop")
        /\ isAutoplayEnabled = (lastEvent.storage["isAutoplayEnabled"] # Text("false"))
        /\ theme \in Themes
        /\ language \in LanguageCodes
        /\ deviceView \in DeviceViews

-----------------------------------------------------------------------------
(* Persistence.                                                            *)

\* What localStorage holds when every item is the serialized state.
Mirror ==
    [k \in Keys |->
        CASE k = "theme" -> Text(theme)
          [] k = "language" -> Text(language)
          [] k = "isLoggedIn" -> Text(String(isLoggedIn))
          [] k = "user" -> IF user = nullUser THEN Absent ELSE stringifyUser(user[1])
          [] k = "isAutoplayEnabled" -> Text(String(isAutoplayEnabled))
          [] k = "deviceView" -> Text(deviceView)
          [] OTHER -> stringifyPlaylist(playlist)]

\* C14: while the component has not failed, after every event and its
\* effects each item of localStorage is the serialization of the state it
\* is kept for, and there is no 'user' item when user is null.
C14_StorageMirrorsState == phase # "crashed" => storage = Mirror

\* A toggle of the playlist, after a logout and other changes, is saved.
C14_Witness ==
    /\ lastEvent.op = "togglePlaylist"
    /\ playlist # <<>>
    /\ user = nullUser
    /\ storage["user"] = Absent
    /\ storage["isLoggedIn"] = Text("false")
    /\ storage["language"] = Text("de")
    /\ storage["theme"] = Text("light")
    /\ storage["playlist"] = stringifyPlaylist(playlist)

\* The handlers that change a saved part of the state.
MutationOps ==
    {"toggleTheme", "setLanguage", "toggleAutoplay", "setDeviceView",
     "handleLogin", "handleLogout", "togglePlaylist"}

\* C15: after a handler that changes a saved part of the state, the
\* component is up with the new state, whether or not setItem threw.
C15_WriteFailureTolerated == lastEvent.op \in MutationOps => phase = "running"

-----------------------------------------------------------------------------
(* The debounce timer.                                                     *)

\* C16: once the component is torn down no timer is pending, no timer
\* callback has run since, and the visible set is the one the teardown
\* found.
C16_CancelledOnTeardown ==
    phase = "unmounted" =>
        /\ lastEvent.op = "unmount"
        /\ videos = lastEvent.videos
        /\ timers = {}

\* A teardown in the middle of a burst, before any recomputation for it:
\* the visible set stays what it was, not what the inputs call for.
C16_Witness ==
    /\ phase = "unmounted"
    /\ burstLen >= 2
    /\ burstRuns = 0
    /\ sinceChange < Delay
    /\ timers = {}
    /\ ~IsReferenceResult(videos, searchQuery, selectedCategory, playlist)

\* C18: at most one timer is pending, a pending timer has waited no longer
\* than the time since the inputs last changed, and a timer callback has
\* run only with Delay or more elapsed since they last changed.
C18_NotBeforeQuietPeriod ==
    /\ Cardinality(timers) <= 1
    /\ \A t \in timers : t.elapsed <= sinceChange
    /\ lastEvent.op = "timer" => sinceChange >= Delay

\* A recomputation has run, Delay after the last change of a burst.
C18_Witness ==
    /\ lastEvent.op = "timer"
    /\ burstLen = MaxBurst
    /\ burstRuns = 1
    /\ sinceChange >= Delay
    /\ timers = {}

-----------------------------------------------------------------------------
(* The modal.                                                              *)

\* C19: activeModal is null or one modal; a switch is taken with a modal
\* open and leaves the modal it names open; handleOpenModal leaves its
\* modal open and handleCloseModal leaves none.
C19_ModalTransitions ==
    /\ activeModal \in ModalTypes \cup {null}
    /\ lastEvent.op = "switchModal" =>
           /\ lastEvent.from \in ModalTypes
           /\ activeModal = lastEvent.to
           /\ activeModal \in ModalTypes
    /\ lastEvent.op = "handleOpenModal" => activeModal = lastEvent.modalType
    /\ lastEvent.op = "handleCloseModal" => activeModal = null

\* The sign-in modal was switched to the sign-up modal.
C19_Witness ==
    /\ lastEvent.op = "switchModal"
    /\ lastEvent.from = "signIn"
    /\ lastEvent.to = "signUp"
    /\ activeModal = "signUp"

-----------------------------------------------------------------------------
(* The translation lookup.                                                 *)

\* The segments of path, joined with dots.
RECURSIVE Join(_)
Join(path) ==
    IF Len(path) = 1 THEN path[1] ELSE path[1] \o <<".">> \o Join(Tail(path))

\* The strings the dictionary of lang has under the dotted key.
Found(key, lang) ==
    IF lang \in DOMAIN TRANSLATIONS
    THEN {leaf.text : leaf \in {l \in TRANSLATIONS[lang] : Join(l.path) = key}}
    ELSE {}

\* C17: t(key) is a string: the one the dictionary of the language has
\* under the key, else the one the 'en' dictionary has, else the key.
C17_TranslateFallsBack ==
    lastEvent.op = "t" =>
        /\ lastEvent.result.kind = "string"
        /\ lastEvent.result.text \in Seq(KeyAlphabet \cup {"E", "P", "1", "2", "3", "4", "5"})
        /\ IF Found(lastEvent.key, language) # {}
           THEN lastEvent.result.text \in Found(lastEvent.key, language)
           ELSE IF Found(lastEvent.key, "en") # {}
                THEN lastEvent.result.text \in Found(lastEvent.key, "en")
                ELSE lastEvent.result.text = lastEvent.key

\* A key the language lacks and 'en' has, looked up in a language with a
\* dictionary.
C17_Witness ==
    /\ lastEvent.op = "t"
    /\ language = "pt"
    /\ lastEvent.key = <<"a", ".", "c">>
    /\ lastEvent.result = StringValue(<<"E", "2">>)

-----------------------------------------------------------------------------
(* Saving and loading.                                                     *)

\* C20: a page load over the storage a session left, the session having
\* saved all it changed, gives the theme, language, autoplay flag, device
\* view, login flag, user and playlist that session had.
C20_LoadGivesWhatWasSaved ==
    (lastEvent.op = "mount" /\ lastEvent.before # <<>>) =>
        Saved = lastEvent.before[1]

\* A page load after a session that changed every saved part of the state.
C20_Witness ==
    /\ lastEvent.op = "mount"
    /\ lastEvent.before # <<>>
    /\ phase = "running"
    /\ theme = "light"
    /\ language = "ko"
    /\ ~isAutoplayEnabled
    /\ deviceView = "smartphone"
    /\ isLoggedIn
    /\ user = <<JaneDoe>>
    /\ playlist = <<MOCK_VIDEOS[2], MOCK_VIDEOS[1]>>
    /\ lastEvent.storage["playlist"] # Absent

====
